---- MODULE Spec2Model ----
(***************************************************************************)
(* The GSP route layer of the national forecast API (src/src/gsp.py): six  *)
(* GET routes, each a handler wrapped by cache_response and fed by the     *)
(* auth and session dependencies, over the database collaborator.          *)
(***************************************************************************)
EXTENDS Integers, Sequences, FiniteSets, TLC

VARIABLES reqs, cache, db, open, sysResp

vars == <<reqs, cache, db, open, sysResp>>

\* ------------------------------------------------------------- bounds
MaxRequests == 2
MaxRuns == 1
MaxSeed == 10

Requests == 1..MaxRequests

\* ------------------------------------------------------------- routes
\* The six decorated handlers of gsp.py, by their function names.
Handlers == {"get_all_available_forecasts",
             "get_forecasts_for_a_specific_gsp_old_route",
             "get_forecasts_for_a_specific_gsp",
             "get_truths_for_all_gsps",
             "get_truths_for_a_specific_gsp_old_route",
             "get_truths_for_a_specific_gsp"}

\* The path each @router.get registers.
PathOf(h) ==
    CASE h = "get_all_available_forecasts" -> "/forecast/all"
      [] h = "get_forecasts_for_a_specific_gsp_old_route" -> "/forecast/{gsp_id}"
      [] h = "get_forecasts_for_a_specific_gsp" -> "/{gsp_id}/forecast"
      [] h = "get_truths_for_all_gsps" -> "/pvlive/all"
      [] h = "get_truths_for_a_specific_gsp_old_route" -> "/pvlive/{gsp_id}"
      [] h = "get_truths_for_a_specific_gsp" -> "/{gsp_id}/pvlive"

\* The two deprecated routes and the decorated function each one calls.
IsAlias(h) == h \in {"get_forecasts_for_a_specific_gsp_old_route",
                     "get_truths_for_a_specific_gsp_old_route"}

Canonical(h) ==
    CASE h = "get_forecasts_for_a_specific_gsp_old_route" -> "get_forecasts_for_a_specific_gsp"
      [] h = "get_truths_for_a_specific_gsp_old_route" -> "get_truths_for_a_specific_gsp"
      [] OTHER -> h

\* The database function the body of a canonical handler calls.
QueryOf(h) ==
    CASE h = "get_all_available_forecasts" -> "get_forecasts_from_database"
      [] h = "get_forecasts_for_a_specific_gsp" ->
             "get_latest_forecast_values_for_a_specific_gsp_from_database"
      [] h = "get_truths_for_all_gsps" -> "get_truth_values_for_all_gsps_from_database"
      [] h = "get_truths_for_a_specific_gsp" ->
             "get_truth_values_for_a_specific_gsp_from_database"

TruthQueries == {"get_truth_values_for_all_gsps_from_database",
                 "get_truth_values_for_a_specific_gsp_from_database"}

HasGspId(h) == h \notin {"get_all_available_forecasts", "get_truths_for_all_gsps"}

\* ------------------------------------------------------------- inputs
NoGsp == -1
BadInt == -2

\* Raw path segments a caller may send for {gsp_id}.
GspRaw == {"0", "abc"}

\* Raw query-string values per handler ("absent": the parameter is not sent).
ArgRaw(h) ==
    CASE h = "get_all_available_forecasts" -> {"absent", "false"}
      [] h \in {"get_forecasts_for_a_specific_gsp_old_route",
                "get_forecasts_for_a_specific_gsp"} -> {"absent", "60"}
      [] OTHER -> {"absent", "in-day", "day-after", "weekly"}

Creds == {"valid", "missing", "invalid"}

\* gsp_id: int -- the path segment coerced to an integer, or a validation error.
ToInt(s) ==
    CASE s = "0" -> 0
      [] s = "1" -> 1
      [] s = "60" -> 60
      [] OTHER -> BadInt

\* The declared type and default of each handler's query parameter, applied to
\* the raw value: historic: Optional[bool] = True, forecast_horizon_minutes:
\* Optional[int] = None, regime: Optional[str] = None.
CoerceArg(h, a) ==
    CASE h = "get_all_available_forecasts" ->
             IF a = "absent" THEN "True" ELSE IF a = "true" THEN "True" ELSE "False"
      [] h \in {"get_forecasts_for_a_specific_gsp_old_route",
                "get_forecasts_for_a_specific_gsp"} ->
             IF a = "absent" THEN "None" ELSE a
      [] OTHER -> IF a = "absent" THEN "None" ELSE a

CoerceGsp(h, g) == IF HasGspId(h) THEN ToInt(g) ELSE NoGsp

\* ------------------------------------------------------------- values
NoResp == [query |-> "none", gsp_id |-> NoGsp, param |-> "None",
           data |-> {}, normalized |-> FALSE]

NewReq == [pc |-> "idle", handler |-> "none", fn |-> "none", gspRaw |-> "none",
           argRaw |-> "none", gsp_id |-> NoGsp, param |-> "None", cred |-> "none",
           user |-> "none", session |-> 0, hits |-> {}, queries |-> 0,
           qfailed |-> FALSE, ret |-> NoResp, status |-> 0]

NoSysResp == [route |-> "none", status |-> 0, body |-> <<>>]

Init ==
    /\ reqs = [r \in Requests |-> NewReq]
    /\ cache = {}
    /\ db = [forecasts |-> {}, audit |-> <<>>]
    /\ open = {}
    /\ sysResp = NoSysResp

\* ------------------------------------------------------------- collaborators
\* cache_response keeps, per decorated function, one entry per request key
\* (path, route variables, identity).
KeyOf(r) == [path |-> PathOf(r.handler), gsp_id |-> r.gsp_id, param |-> r.param,
             user |-> r.user]

CacheEntries(c, f, k) == {e \in c : e.fn = f /\ e.key = k}

CacheHas(c, f, k) == CacheEntries(c, f, k) # {}

CacheGet(c, f, k) == (CHOOSE e \in CacheEntries(c, f, k) : TRUE).value

CachePut(c, f, k, v) == (c \ CacheEntries(c, f, k)) \cup {[fn |-> f, key |-> k, value |-> v]}

\* What the database function called by canonical handler f returns for the
\* coerced route variables, read from the forecast and yield data held in d.
QueryResult(f, g, p, d) ==
    [query |-> QueryOf(f), gsp_id |-> g, param |-> p,
     data |-> IF g = NoGsp THEN d.forecasts ELSE {x \in d.forecasts : x[1] = g},
     normalized |-> FALSE]

\* forecasts.normalize()
Normalized(v) == [v EXCEPT !.normalized = TRUE]

\* save_api_call_to_db(session, user, request): one more audit row, nothing else.
SaveApiCallToDb(d, row) == [d EXCEPT !.audit = Append(@, row)]

AuditRow(r, id) == [req |-> id, user |-> r.user, path |-> PathOf(r.handler),
                    session |-> r.session]

\* get_session: a session of its own for the request that asks.
GetSession(held) == CHOOSE s \in 1..(Cardinality(held) + 1) : s \notin held

\* The session dependency's exit: the request's session is given back.
ReleaseSession(held, s) == held \ {s}

\* get_user: the identity a credential resolves to.
UserOf(c) == IF c = "valid" THEN "user1" ELSE "none"

\* A request ends: status, body, and the session scope closed.
Ended(r, code, body) ==
    [r EXCEPT !.pc = "done", !.status = code, !.ret = body, !.session = 0]

\* ------------------------------------------------------------- request steps
\* A GET arrives on one of the six routes (requests are numbered in the order
\* they arrive).
Arrive(id) ==
    /\ reqs[id].pc = "idle"
    /\ IF id = 1 THEN TRUE ELSE reqs[id - 1].pc # "idle"
    /\ \E h \in Handlers, c \in Creds :
         \E g \in (IF HasGspId(h) THEN GspRaw ELSE {"none"}), a \in ArgRaw(h) :
           reqs' = [reqs EXCEPT ![id] = [NewReq EXCEPT !.pc = "auth", !.handler = h,
                                          !.fn = h, !.gspRaw = g, !.argRaw = a,
                                          !.cred = c]]
    /\ UNCHANGED <<cache, db, open, sysResp>>

\* dependencies=[Depends(get_auth_implicit_scheme())]: no credential, no entry.
Authenticate(id) ==
    LET r == reqs[id] IN
    /\ r.pc = "auth"
    /\ reqs' = [reqs EXCEPT ![id] =
                  IF r.cred = "missing" THEN Ended(r, 403, NoResp)
                  ELSE [r EXCEPT !.pc = "session"]]
    /\ UNCHANGED <<cache, db, open, sysResp>>

\* The session taken once and shared, as a default argument evaluated at import
\* would be, instead of per request through Depends.
AcquireSharedSession(id) ==
    LET r == reqs[id] IN
    /\ r.pc = "session"
    /\ reqs' = [reqs EXCEPT ![id] = [r EXCEPT !.pc = "user", !.session = 1]]
    /\ open' = open \cup {1}
    /\ UNCHANGED <<cache, db, sysResp>>

\* session: Session = Depends(get_session)
AcquireSession(id) ==
    LET r == reqs[id]
        s == GetSession(open) IN
    /\ r.pc = "session"
    /\ reqs' = [reqs EXCEPT ![id] = [r EXCEPT !.pc = "user", !.session = s]]
    /\ open' = open \cup {s}
    /\ UNCHANGED <<cache, db, sysResp>>

\* A user dependency that lets any presented credential through.
GetUserUnchecked(id) ==
    LET r == reqs[id] IN
    /\ r.pc = "user"
    /\ reqs' = [reqs EXCEPT ![id] = [r EXCEPT !.pc = "validate", !.user = UserOf(r.cred)]]
    /\ UNCHANGED <<cache, db, open, sysResp>>

\* user: Auth0User = Security(get_user())
GetUser(id) ==
    LET r == reqs[id] IN
    /\ r.pc = "user"
    /\ IF r.cred = "valid"
       THEN /\ reqs' = [reqs EXCEPT ![id] = [r EXCEPT !.pc = "validate",
                                               !.user = UserOf(r.cred)]]
            /\ open' = open
       ELSE /\ reqs' = [reqs EXCEPT ![id] = Ended(r, 401, NoResp)]
            /\ open' = ReleaseSession(open, r.session)
    /\ UNCHANGED <<cache, db, sysResp>>

\* Path and query parameters coerced to their declared types; 422 otherwise.
Validate(id) ==
    LET r == reqs[id]
        g == CoerceGsp(r.handler, r.gspRaw) IN
    /\ r.pc = "validate"
    /\ IF g = BadInt
       THEN /\ reqs' = [reqs EXCEPT ![id] = Ended(r, 422, NoResp)]
            /\ open' = ReleaseSession(open, r.session)
       ELSE /\ reqs' = [reqs EXCEPT ![id] = [r EXCEPT !.pc = "wrapper", !.gsp_id = g,
                                               !.param = CoerceArg(r.handler, r.argRaw)]]
            /\ open' = open
    /\ UNCHANGED <<cache, db, sysResp>>

\* Where control goes when function f of request r has its value: the route's
\* own wrapper answers the request, the canonical wrapper called by an alias
\* returns into the alias, whose wrapper then keeps the value.
AfterHit(r, v) ==
    IF r.fn = r.handler
    THEN [r EXCEPT !.pc = "respond", !.ret = v, !.hits = @ \cup {r.fn}]
    ELSE [r EXCEPT !.pc = "store", !.ret = v, !.hits = @ \cup {r.fn}, !.fn = r.handler]

\* @cache_response, on entry: a kept response still within its TTL is returned
\* without calling the wrapped function; with none kept, or the kept one past
\* its TTL, the wrapped function is called.
CacheLookup(id) ==
    LET r == reqs[id]
        k == KeyOf(r) IN
    /\ r.pc = "wrapper"
    /\ \/ /\ CacheHas(cache, r.fn, k)
          /\ reqs' = [reqs EXCEPT ![id] = AfterHit(r, CacheGet(cache, r.fn, k))]
       \/ reqs' = [reqs EXCEPT ![id] = [r EXCEPT !.pc = "body"]]
    /\ UNCHANGED <<cache, db, open, sysResp>>

\* An alias body that records the call itself before delegating.
DelegateAndSave(id) ==
    LET r == reqs[id] IN
    /\ r.pc = "body"
    /\ IsAlias(r.fn)
    /\ db' = SaveApiCallToDb(db, AuditRow(r, id))
    /\ reqs' = [reqs EXCEPT ![id] = [r EXCEPT !.pc = "wrapper", !.fn = Canonical(r.fn)]]
    /\ UNCHANGED <<cache, open, sysResp>>

\* An alias body that forgets to pass the optional query parameter on.
DelegateDroppingParam(id) ==
    LET r == reqs[id] IN
    /\ r.pc = "body"
    /\ IsAlias(r.fn)
    /\ reqs' = [reqs EXCEPT ![id] = [r EXCEPT !.pc = "wrapper", !.fn = Canonical(r.fn),
                                            !.param = "None"]]
    /\ UNCHANGED <<cache, db, open, sysResp>>

\* The body of a deprecated route: return <canonical handler>(same arguments).
Delegate(id) ==
    LET r == reqs[id] IN
    /\ r.pc = "body"
    /\ IsAlias(r.fn)
    /\ reqs' = [reqs EXCEPT ![id] = [r EXCEPT !.pc = "wrapper", !.fn = Canonical(r.fn)]]
    /\ UNCHANGED <<cache, db, open, sysResp>>

\* A canonical body that queries first and leaves the audit write for later.
SaveApiCallDeferred(id) ==
    LET r == reqs[id] IN
    /\ r.pc = "body"
    /\ ~IsAlias(r.fn)
    /\ reqs' = [reqs EXCEPT ![id] = [r EXCEPT !.pc = "query"]]
    /\ UNCHANGED <<cache, db, open, sysResp>>

\* First statement of a canonical body: save_api_call_to_db(...), which may raise.
SaveApiCall(id) ==
    LET r == reqs[id] IN
    /\ r.pc = "body"
    /\ ~IsAlias(r.fn)
    /\ \/ /\ db' = SaveApiCallToDb(db, AuditRow(r, id))
          /\ reqs' = [reqs EXCEPT ![id] = [r EXCEPT !.pc = "query"]]
          /\ open' = open
       \/ /\ db' = db
          /\ reqs' = [reqs EXCEPT ![id] = Ended(r, 500, NoResp)]
          /\ open' = ReleaseSession(open, r.session)
    /\ UNCHANGED <<cache, sysResp>>

\* A body of /forecast/all that returns the forecasts as queried.
AfterQuerySkipNormalize(r, v) == [r EXCEPT !.pc = "store", !.ret = v, !.queries = @ + 1]

\* Where a canonical body goes with the query's result.
AfterQuery(r, v) ==
    [r EXCEPT !.pc = IF r.fn = "get_all_available_forecasts" THEN "normalize" ELSE "store",
              !.ret = v, !.queries = @ + 1]

\* A body that catches the query's error and calls the query again.
QueryRetried(r) == [r EXCEPT !.queries = @ + 1, !.qfailed = TRUE]

\* What a canonical body does when the query raises: nothing, the error leaves.
QueryFailed(r) == [Ended(r, 500, NoResp) EXCEPT !.queries = @ + 1, !.qfailed = TRUE]

\* The get_*_from_database call of a canonical body, which may raise.
Query(id) ==
    LET r == reqs[id] IN
    /\ r.pc = "query"
    /\ \/ /\ reqs' = [reqs EXCEPT ![id] =
                        AfterQuery(r, QueryResult(r.fn, r.gsp_id, r.param, db))]
          /\ open' = open
       \/ /\ reqs' = [reqs EXCEPT ![id] = QueryFailed(r)]
          /\ open' = IF reqs'[id].pc = "done" THEN ReleaseSession(open, r.session) ELSE open
    /\ UNCHANGED <<cache, db, sysResp>>

\* A normalize that writes the normalized forecasts back through the session.
NormalizeAndCommit(id) ==
    LET r == reqs[id] IN
    /\ r.pc = "normalize"
    /\ reqs' = [reqs EXCEPT ![id] = [r EXCEPT !.pc = "store", !.ret = Normalized(r.ret)]]
    /\ db' = [db EXCEPT !.forecasts = {<<x[1], 0>> : x \in @} \cup {<<0, 0>>}]
    /\ UNCHANGED <<cache, open, sysResp>>

\* forecasts.normalize() in get_all_available_forecasts.
Normalize(id) ==
    LET r == reqs[id] IN
    /\ r.pc = "normalize"
    /\ reqs' = [reqs EXCEPT ![id] = [r EXCEPT !.pc = "store", !.ret = Normalized(r.ret)]]
    /\ UNCHANGED <<cache, db, open, sysResp>>

\* @cache_response, on return of the wrapped function: the value is kept.
CacheStore(id) ==
    LET r == reqs[id] IN
    /\ r.pc = "store"
    /\ cache' = CachePut(cache, r.fn, KeyOf(r), r.ret)
    /\ reqs' = [reqs EXCEPT ![id] =
                  IF r.fn = r.handler THEN [r EXCEPT !.pc = "respond"]
                  ELSE [r EXCEPT !.fn = r.handler]]
    /\ UNCHANGED <<db, open, sysResp>>

\* The response is serialized and the session scope closes.
Respond(id) ==
    LET r == reqs[id] IN
    /\ r.pc = "respond"
    /\ reqs' = [reqs EXCEPT ![id] = Ended(r, 200, r.ret)]
    /\ open' = ReleaseSession(open, r.session)
    /\ UNCHANGED <<cache, db, sysResp>>

\* ------------------------------------------------------------- environment
KnownGsps == {0}

Runs(d) == {x[2] : x \in d.forecasts}

\* The forecasting collaborator writes a new run of forecasts.
ForecastRun ==
    /\ Cardinality(Runs(db)) < MaxRuns
    /\ db' = [db EXCEPT !.forecasts = @ \cup {<<g, Cardinality(Runs(db)) + 1>> : g \in KnownGsps}]
    /\ UNCHANGED <<reqs, cache, open, sysResp>>

Next ==
    \/ \E id \in Requests : Arrive(id)
    \/ \E id \in Requests : Authenticate(id)
    \/ \E id \in Requests : AcquireSession(id)
    \/ \E id \in Requests : GetUser(id)
    \/ \E id \in Requests : Validate(id)
    \/ \E id \in Requests : CacheLookup(id)
    \/ \E id \in Requests : Delegate(id)
    \/ \E id \in Requests : SaveApiCall(id)
    \/ \E id \in Requests : Query(id)
    \/ \E id \in Requests : Normalize(id)
    \/ \E id \in Requests : CacheStore(id)
    \/ \E id \in Requests : Respond(id)
    \/ ForecastRun

Spec == Init /\ [][Next]_vars

\* ------------------------------------------------------------- system routes
RECURSIVE Ascending(_)
\* The members of a finite set of integers, in ascending order.
Ascending(S) ==
    IF S = {} THEN <<>>
    ELSE LET m == CHOOSE x \in S : \A y \in S : x <= y
         IN <<m>> \o Ascending(S \ {m})

GspIds(d) == {x[1] : x \in d.forecasts}

\* make_fake_forecasts(gsp_ids=list(range(0, n))), add_all, commit.
SeedForecasts(n) ==
    /\ Cardinality(Runs(db)) <= MaxRuns
    /\ db' = [db EXCEPT !.forecasts = @ \cup {<<g, Cardinality(Runs(db)) + 1>> : g \in 0..(n - 1)}]
    /\ UNCHANGED <<reqs, cache, open, sysResp>>

\* One location per forecast row rather than per GSP.
LocationPerForecast(d) == [i \in 1..Cardinality(d.forecasts) |-> [gsp_id |-> 0]]

\* GET /v0/system/GB/gsp/: one location per GSP the database holds forecasts for.
SystemLocations(d) == [i \in 1..Cardinality(GspIds(d)) |-> [gsp_id |-> Ascending(GspIds(d))[i]]]

GetGspSystems ==
    /\ sysResp' = [route |-> "/v0/system/GB/gsp/", status |-> 200, body |-> SystemLocations(db)]
    /\ UNCHANGED <<reqs, cache, db, open>>

\* GET /v0/system/GB/gsp/boundaries: the boundary list of the GSP regions.
SystemBoundaries == <<[gsp_id |-> 0]>>

GetGspBoundaries ==
    /\ sysResp' = [route |-> "/v0/system/GB/gsp/boundaries", status |-> 200,
                   body |-> SystemBoundaries]
    /\ UNCHANGED <<reqs, cache, db, open>>

NextSystem ==
    \/ \E n \in 0..MaxSeed : SeedForecasts(n)
    \/ GetGspSystems
    \/ GetGspBoundaries

SpecSystem == Init /\ [][NextSystem]_vars

\* ------------------------------------------------------------- what a route serves
\* The value the wrapper of decorated function f returns for key k when the
\* wrapped function would return v: the kept response if there is one.
WrapperResult(f, k, v) == IF CacheHas(cache, f, k) THEN CacheGet(cache, f, k) ELSE v

\* The value a canonical body returns when neither call in it raises.
BodyResult(f, g, p) ==
    IF f = "get_all_available_forecasts" THEN Normalized(QueryResult(f, g, p, db))
    ELSE QueryResult(f, g, p, db)

\* The response a valid request to the route of handler h gets in this state.
RouteResult(h, g, p, u) ==
    LET k == [path |-> PathOf(h), gsp_id |-> g, param |-> p, user |-> u] IN
    IF IsAlias(h)
    THEN WrapperResult(h, k, WrapperResult(Canonical(h), k, BodyResult(Canonical(h), g, p)))
    ELSE WrapperResult(h, k, BodyResult(h, g, p))

\* ------------------------------------------------------------- claims
Active(id) == reqs[id].pc # "idle"

Done(id) == reqs[id].pc = "done"

Succeeded(id) == Done(id) /\ reqs[id].status = 200

\* The audit-log rows written for request id.
Rows(id) == Cardinality({i \in 1..Len(db.audit) : db.audit[i].req = id})

Regimes == {"None", "in-day", "day-after"}

\* C1: every request that ends in a successful response has caused exactly one
\* audit-log row, whether it was served from the cache or by the handler body.
C1_ExactlyOneAuditRow == \A id \in Requests : Succeeded(id) => Rows(id) = 1

\* C1 (amended): a successful request has caused exactly one audit-log row when
\* no cache layer served it, and none when its response came from a cache; no
\* request ever has more than one row.
C1_AuditRowUnlessCached ==
    \A id \in Requests :
        /\ Rows(id) <= 1
        /\ Succeeded(id) => Rows(id) = (IF reqs[id].hits = {} THEN 1 ELSE 0)

C1_Witness ==
    \E a, b \in Requests :
        /\ Succeeded(a) /\ reqs[a].hits = {} /\ Rows(a) = 1
        /\ Succeeded(b) /\ reqs[b].hits # {} /\ Rows(b) = 0

\* C2: a request for which a database query was issued (or is about to be) has
\* already had its call recorded in the audit log.
C2_AuditBeforeQuery ==
    \A id \in Requests :
        (reqs[id].queries > 0 \/ reqs[id].pc \in {"query", "normalize"}) => Rows(id) = 1

C2_Witness ==
    \E id \in Requests : reqs[id].queries = 1 /\ Rows(id) = 1 /\ Succeeded(id)

\* C3: in every database and cache state, for every gsp_id and parameter value,
\* each deprecated route returns the same response as its canonical route.
C3_AliasSameResponse ==
    \A h \in Handlers : IsAlias(h) =>
        \A a \in ArgRaw(h) :
            RouteResult(h, 0, CoerceArg(h, a), UserOf("valid")) =
            RouteResult(Canonical(h), 0, CoerceArg(Canonical(h), a), UserOf("valid"))

NoKept(f, h, g, p, u) ==
    ~CacheHas(cache, f, [path |-> PathOf(h), gsp_id |-> g, param |-> p, user |-> u])

\* C3 (amended): each deprecated route passes its parameters unchanged to the
\* canonical handler, so every response it gives is the canonical query's result
\* for the request's own gsp_id and parameter value; and it is the response the
\* canonical route gives in the same state whenever no cache layer keeps a
\* response for those parameters.
C3_AliasDelegates ==
    /\ \A id \in Requests :
          (IsAlias(reqs[id].handler)
              /\ (reqs[id].pc \in {"store", "respond"} \/ Succeeded(id))) =>
              /\ reqs[id].ret.query = QueryOf(Canonical(reqs[id].handler))
              /\ reqs[id].ret.gsp_id = ToInt(reqs[id].gspRaw)
              /\ reqs[id].ret.param = CoerceArg(reqs[id].handler, reqs[id].argRaw)
    /\ \A h \in Handlers : IsAlias(h) =>
          \A a \in ArgRaw(h) :
              LET p == CoerceArg(h, a)
                  u == UserOf("valid") IN
              (NoKept(h, h, 0, p, u) /\ NoKept(Canonical(h), h, 0, p, u)
                  /\ NoKept(Canonical(h), Canonical(h), 0, p, u)) =>
                  RouteResult(h, 0, p, u) = RouteResult(Canonical(h), 0, p, u)

C3_Witness ==
    \E id \in Requests :
        /\ IsAlias(reqs[id].handler) /\ Succeeded(id)
        /\ reqs[id].argRaw # "absent"
        /\ reqs[id].ret.data # {}

\* C4: a request whose credential fails authentication never gets past the
\* dependencies: no audit row, no query, no cached or computed response, and it
\* ends with 401 or 403.
C4_AuthFailureRejected ==
    \A id \in Requests :
        (Active(id) /\ reqs[id].cred # "valid") =>
            /\ reqs[id].pc \in {"auth", "session", "user", "done"}
            /\ Rows(id) = 0
            /\ reqs[id].queries = 0
            /\ reqs[id].hits = {}
            /\ reqs[id].ret = NoResp
            /\ Done(id) => reqs[id].status \in {401, 403}

C4_Witness ==
    \E a, b \in Requests :
        /\ Done(a) /\ reqs[a].cred = "invalid" /\ reqs[a].status = 401
        /\ Done(b) /\ reqs[b].cred = "missing" /\ reqs[b].status = 403

\* C5: the query is called at most once per request, and a request whose query
\* raised has ended at once with a 500 and no response body.
C5_QueryFailureSurfaces ==
    \A id \in Requests :
        /\ reqs[id].queries <= 1
        /\ reqs[id].qfailed =>
              /\ Done(id)
              /\ reqs[id].status = 500
              /\ reqs[id].ret = NoResp
              /\ reqs[id].queries = 1

C5_Witness == \E id \in Requests : reqs[id].qfailed /\ Done(id) /\ Rows(id) = 1

InCall(id) == reqs[id].pc \in {"user", "validate", "wrapper", "body", "query",
                                "normalize", "store", "respond"}

\* C6: a request holds a session of its own from the session dependency until it
\* ends, however it ends; no two requests hold the same session, and no session
\* stays held by a request that has ended.
C6_SessionScoped ==
    /\ \A id \in Requests :
          /\ InCall(id) => reqs[id].session \in open
          /\ ~InCall(id) => reqs[id].session = 0
    /\ \A a, b \in Requests :
          (a # b /\ InCall(a) /\ InCall(b)) => reqs[a].session # reqs[b].session
    /\ open = {reqs[id].session : id \in {x \in Requests : InCall(x)}}

C6_Witness ==
    \E a, b \in Requests :
        /\ a # b
        /\ Done(a) /\ reqs[a].status = 500
        /\ InCall(b) /\ open = {reqs[b].session}

\* C7: a truth-value query is only ever issued with regime absent, "in-day" or
\* "day-after"; any other regime string ends the request with 422.
C7_RegimeEnumerated ==
    \A id \in Requests :
        (Active(id) /\ QueryOf(Canonical(reqs[id].handler)) \in TruthQueries) =>
            /\ (reqs[id].queries > 0 \/ reqs[id].pc = "query") => reqs[id].param \in Regimes
            /\ (Done(id) /\ reqs[id].cred = "valid"
                  /\ CoerceArg(reqs[id].handler, reqs[id].argRaw) \notin Regimes)
                 => reqs[id].status = 422

RequestStep(id) ==
    \/ Arrive(id) \/ Authenticate(id) \/ AcquireSession(id) \/ GetUser(id)
    \/ Validate(id) \/ CacheLookup(id) \/ Delegate(id) \/ SaveApiCall(id)
    \/ Query(id) \/ Normalize(id) \/ CacheStore(id) \/ Respond(id)

\* C8: no step of any request changes the forecast data held in the database;
\* the only thing a step adds to the database is one audit-log row for that
\* request, and no request has more than one.
C8_OnlyAuditWritten ==
    [][\A id \in Requests : RequestStep(id) =>
          /\ db'.forecasts = db.forecasts
          /\ \/ db'.audit = db.audit
             \/ /\ Len(db'.audit) = Len(db.audit) + 1
                /\ SubSeq(db'.audit, 1, Len(db.audit)) = db.audit
                /\ db'.audit[Len(db'.audit)].req = id
                /\ Rows(id) = 0]_vars

C8_Witness ==
    /\ Len(db.audit) = MaxRequests
    /\ db.forecasts # {}
    /\ \A id \in Requests : Succeeded(id)

\* C9: with forecasts for N distinct GSP ids in the database, GET
\* /v0/system/GB/gsp/ answers 200 with exactly N locations, one per GSP id (10
\* for ids 0..9), and GET /v0/system/GB/gsp/boundaries answers 200 with a
\* non-empty list.
C9_SystemRoutes ==
    [][/\ GetGspSystems =>
            /\ sysResp'.status = 200
            /\ Len(sysResp'.body) = Cardinality(GspIds(db))
            /\ {sysResp'.body[i].gsp_id : i \in 1..Len(sysResp'.body)} = GspIds(db)
            /\ GspIds(db) = 0..9 => Len(sysResp'.body) = 10
       /\ GetGspBoundaries => (sysResp'.status = 200 /\ Len(sysResp'.body) > 0)]_vars

C9_Witness ==
    /\ sysResp.route = "/v0/system/GB/gsp/"
    /\ Len(sysResp.body) = 10
    /\ GspIds(db) = 0..9
    /\ Cardinality(db.forecasts) > 10

\* C10: a request served from the cache has neither an audit row nor a query;
\* a successful request that missed the cache of its route has run the body:
\* one audit row, then one query, then (for /forecast/all) normalize.
C10_Pipeline ==
    \A id \in Requests :
        /\ reqs[id].hits # {} => (Rows(id) = 0 /\ reqs[id].queries = 0)
        /\ (Succeeded(id) /\ reqs[id].handler \notin reqs[id].hits) =>
              /\ Rows(id) = 1
              /\ reqs[id].queries = 1
              /\ reqs[id].handler = "get_all_available_forecasts" => reqs[id].ret.normalized


\* C10 (amended): authentication comes before any cache check; a request served
\* from a cache layer has neither an audit row nor a query; a successful request
\* that no cache layer served (for a deprecated route: neither its own nor the
\* canonical handler's) has run the body in order: one audit row, then one
\* query, then (for /forecast/all) normalize.
C10_PipelineAllLayers ==
    \A id \in Requests :
        /\ reqs[id].pc \in {"wrapper", "body", "query", "normalize", "store", "respond"} =>
              (reqs[id].cred = "valid" /\ reqs[id].user = UserOf("valid"))
        /\ reqs[id].hits # {} => (Rows(id) = 0 /\ reqs[id].queries = 0)
        /\ reqs[id].pc = "query" => (Rows(id) = 1 /\ reqs[id].queries = 0)
        /\ reqs[id].pc = "normalize" => reqs[id].queries = 1
        /\ (Succeeded(id) /\ reqs[id].hits = {}) =>
              /\ Rows(id) = 1
              /\ reqs[id].queries = 1
              /\ reqs[id].handler = "get_all_available_forecasts" => reqs[id].ret.normalized

C10_Witness ==
    \E a, b \in Requests :
        /\ Succeeded(a) /\ IsAlias(reqs[a].handler)
        /\ reqs[a].hits = {Canonical(reqs[a].handler)}
        /\ Succeeded(b) /\ reqs[b].hits = {} /\ Rows(b) = 1 /\ reqs[b].queries = 1

====
